---- MODULE Spec2Model ----
(***************************************************************************)
(* Model of src/cache/mongodb.rs: the MongoDB storage backend of sccache.  *)
(*                                                                         *)
(* One MongoDBCache instance (and its clones, which share the Arc'd slot)  *)
(* is driven by a set of concurrent callers.  Every caller runs get or put *)
(* step by step; a step is the code between two points where another      *)
(* caller can be scheduled (an .await, or a blocking lock acquisition).    *)
(* The MongoDB collection behind the connection is a set of BSON           *)
(* documents.                                                              *)
(***************************************************************************)
EXTENDS Integers, Sequences, FiniteSets, TLC

\* ------------------------------------------------------------------ bounds
NumCallers == 2      \* concurrent callers of get/put
MaxCalls == 3        \* get/put calls started over a run
MaxFails == 1        \* connection attempts that fail over a run
MaxTamper == 1       \* stored documents damaged outside the backend
MaxLen == 1          \* length of the payload buffers handed to put

Callers == 1..NumCallers
Keys == {"k1", "k2"}
None == 0            \* Option::None of the slot; connections are 1, 2, ...

\* ------------------------------------------------- crate::cache (CacheWrite/CacheRead)
\* The archive trailer CacheWrite::finish appends and CacheRead::from looks for.
EOCD == 80

\* The buffers a CacheWrite can hold: MaxLen times the same byte.
Bytes == {0, 1}
Bufs == {[i \in 1..MaxLen |-> b] : b \in Bytes}

\* A CacheWrite handed to put: its buffered content, and whether it can be
\* finalized (NoWrite is a writer whose finish() fails).
NoWrite == [buf |-> <<>>, ok |-> FALSE]
PendingWrites == [buf : Bufs, ok : {TRUE}] \cup {NoWrite}

\* CacheWrite::finish(): Result<Vec<u8>>.
Finish(w) ==
    IF w.ok THEN [ok |-> TRUE, bytes |-> w.buf \o <<EOCD>>]
    ELSE [ok |-> FALSE, bytes |-> <<>>]

\* CacheRead::from(Cursor<Vec<u8>>): Result<CacheRead>; the reader is over the
\* bytes it was given, positioned at offset 0.
CacheReadFrom(bytes) ==
    IF Len(bytes) > 0 /\ bytes[Len(bytes)] = EOCD
    THEN [ok |-> TRUE, bytes |-> bytes]
    ELSE [ok |-> FALSE, bytes |-> <<>>]

\* ------------------------------------------------------------------- BSON
BsonString(s) == [t |-> "String", subtype |-> "", v |-> s]
BsonBinary(b) == [t |-> "Binary", subtype |-> "Generic", v |-> b]
BsonNull == [t |-> "Null", subtype |-> "", v |-> <<>>]

\* struct CacheEntry { key: String, cache: Binary }
CacheEntry(k, bytes) == [key |-> k, cache |-> [subtype |-> "Generic", bytes |-> bytes]]

\* bson::to_document(&CacheEntry): one field per struct field, no _id.
ToDocument(e) ==
    [key |-> BsonString(e.key), cache |-> BsonBinary(e.cache.bytes)]

\* (a variant that rejects documents with fields the struct does not have)
FromDocumentStrict(d) ==
    IF DOMAIN d = {"key", "cache"} /\ d.key.t = "String" /\ d.cache.t = "Binary"
    THEN [ok |-> TRUE, entry |-> CacheEntry(d.key.v, d.cache.v)]
    ELSE [ok |-> FALSE, entry |-> CacheEntry("", <<>>)]

\* bson::from_document::<CacheEntry>(document): serde reads the fields key
\* and cache by name and type and ignores every other field (_id).
FromDocument(d) ==
    IF {"key", "cache"} \subseteq DOMAIN d
       /\ d.key.t = "String" /\ d.cache.t = "Binary"
    THEN [ok |-> TRUE, entry |-> CacheEntry(d.key.v, d.cache.v)]
    ELSE [ok |-> FALSE, entry |-> CacheEntry("", <<>>)]

\* (a variant whose filter is empty)
MatchingAny(coll, k) == coll

\* doc! { "key": &key }: the documents of the collection the filter matches.
Matching(coll, k) ==
    {d \in coll : "key" \in DOMAIN d /\ d.key = BsonString(k)}

\* ----------------------------------------------------------------- results
NoResult == [kind |-> "None", err |-> "", bytes |-> <<>>]
Hit(bytes) == [kind |-> "Hit", err |-> "", bytes |-> bytes]
Miss == [kind |-> "Miss", err |-> "", bytes |-> <<>>]
OkDuration == [kind |-> "Ok", err |-> "", bytes |-> <<>>]
Err(msg) == [kind |-> "Err", err |-> msg, bytes |-> <<>>]

NoDoc == [none |-> TRUE]

\* (a variant that maps a document it cannot decode to Miss)
DecodeLenient(data) ==
    IF data = NoDoc THEN Miss
    ELSE LET e == FromDocument(data) IN
         IF ~e.ok THEN Miss
         ELSE LET r == CacheReadFrom(e.entry.cache.bytes) IN
              IF ~r.ok THEN Miss
              ELSE Hit(r.bytes)

\* Storage::get, the match on the lookup's outcome (data is NoDoc or a document).
Decode(data) ==
    IF data = NoDoc THEN Miss
    ELSE LET e == FromDocument(data) IN
         IF ~e.ok THEN Err("failed to deserialize MongoDB entry")
         ELSE LET r == CacheReadFrom(e.entry.cache.bytes) IN
              IF ~r.ok THEN Err("failed to create new cursor")
              ELSE Hit(r.bytes)

\* ------------------------------------------------------------------- state
VARIABLES
    slot,        \* self.collection: None or the published connection
    readers,     \* callers holding a read guard of the RwLock
    writer,      \* caller holding the write guard, or None
    store,       \* the MongoDB collection: a set of documents
    nextConn,    \* identity of the next Client a connect creates
    nextOid,     \* next ObjectId the driver generates for _id
    pc,          \* where each caller is in its call
    op,          \* "get" or "put"
    key,         \* the call's key
    entry,       \* put: the CacheWrite handed in
    doc,         \* put: the serialized document
    newc,        \* get_collection: the local new_collection
    sawEmpty,    \* get_collection: the initial check found the slot empty
    conn,        \* the connection the call's query/insert runs on
    data,        \* get: the lookup's outcome
    result,      \* what the call returned
    calls,       \* calls started
    fails,       \* connection attempts that failed
    tampers,     \* documents damaged outside the backend
    tampered,    \* keys whose documents were damaged
    putLog,      \* (key, finalized bytes) of every put that returned Ok
    usedRacers,  \* connections used by calls whose initial check saw None
    emptyReads   \* initial checks that found the slot empty

vars == <<slot, readers, writer, store, nextConn, nextOid, pc, op, key, entry,
          doc, newc, sawEmpty, conn, data, result, calls, fails, tampers,
          tampered, putLog, usedRacers, emptyReads>>

locks == <<readers, writer>>
db == <<store, nextOid, tampers, tampered, putLog>>
counters == <<nextConn, calls, fails, emptyReads>>
locals == <<doc, newc, sawEmpty, conn, data>>
callArgs == <<op, key, entry>>

\* MongoDBCache::new: the slot is Arc::new(RwLock::new(None)).
Init ==
    /\ slot = None
    /\ readers = {}
    /\ writer = None
    /\ store = {}
    /\ nextConn = 1
    /\ nextOid = 1
    /\ pc = [c \in Callers |-> "idle"]
    /\ op = [c \in Callers |-> "get"]
    /\ key = [c \in Callers |-> "k1"]
    /\ entry = [c \in Callers |-> NoWrite]
    /\ doc = [c \in Callers |-> NoDoc]
    /\ newc = [c \in Callers |-> None]
    /\ sawEmpty = [c \in Callers |-> FALSE]
    /\ conn = [c \in Callers |-> None]
    /\ data = [c \in Callers |-> NoDoc]
    /\ result = [c \in Callers |-> NoResult]
    /\ calls = 0
    /\ fails = 0
    /\ tampers = 0
    /\ tampered = {}
    /\ putLog = <<>>
    /\ usedRacers = {}
    /\ emptyReads = 0

\* A caller starts a call: a new future with fresh locals.
Start(c, o, k, w, at) ==
    /\ pc[c] \in {"idle", "done"}
    /\ calls < MaxCalls
    /\ calls' = calls + 1
    /\ pc' = [pc EXCEPT ![c] = at]
    /\ op' = [op EXCEPT ![c] = o]
    /\ key' = [key EXCEPT ![c] = k]
    /\ entry' = [entry EXCEPT ![c] = w]
    /\ data' = [data EXCEPT ![c] = NoDoc]
    /\ result' = [result EXCEPT ![c] = NoResult]
    /\ UNCHANGED <<slot, locks, db, doc, newc, sawEmpty, conn, nextConn, fails,
                   usedRacers, emptyReads>>

\* A call returns: its future resolves with r and its locals are dropped
\* (what was called, and what the lookup returned, stay on record until the
\* caller's next call).
Return(c, r) ==
    /\ pc' = [pc EXCEPT ![c] = "done"]
    /\ result' = [result EXCEPT ![c] = r]
    /\ entry' = [entry EXCEPT ![c] = NoWrite]
    /\ doc' = [doc EXCEPT ![c] = NoDoc]
    /\ newc' = [newc EXCEPT ![c] = None]
    /\ sawEmpty' = [sawEmpty EXCEPT ![c] = FALSE]
    /\ conn' = [conn EXCEPT ![c] = None]
    /\ UNCHANGED <<op, key>>

\* ------------------------------------------------------------ Storage::get
\* get(&self, key): clone the backend (the clone shares the slot) and start
\* the future, which begins in get_collection.
GetCall(c, k) == Start(c, "get", k, NoWrite, "gc_check")

\* ------------------------------------------------------------ Storage::put
\* put(&self, key, entry): clone, take the start time, start the future,
\* which begins with entry.finish().
PutCall(c, k, w) == Start(c, "put", k, w, "put_finish")

\* entry.finish()? fails: the future resolves with the error.
PutFinishFail(c) ==
    /\ pc[c] = "put_finish"
    /\ ~Finish(entry[c]).ok
    /\ Return(c, Err("finish failed"))
    /\ UNCHANGED <<slot, locks, db, data, counters, usedRacers>>

\* bson::to_document(&entry) fails.
PutSerializeFail(c) ==
    /\ pc[c] = "put_finish"
    /\ Finish(entry[c]).ok
    /\ Return(c, Err("failed to serialize cache"))
    /\ UNCHANGED <<slot, locks, db, data, counters, usedRacers>>

\* The CacheEntry is built from key and entry.finish()? and serialized; the
\* future then enters get_collection.
PutFinish(c) ==
    /\ pc[c] = "put_finish"
    /\ Finish(entry[c]).ok
    /\ doc' = [doc EXCEPT ![c] = ToDocument(CacheEntry(key[c], Finish(entry[c]).bytes))]
    /\ pc' = [pc EXCEPT ![c] = "gc_check"]
    /\ UNCHANGED <<slot, locks, db, callArgs, newc, sawEmpty, conn, data, result,
                   counters, usedRacers>>

\* ------------------------------------------- MongoDBCache::get_collection
\* (a variant that connects on every call, whatever the slot holds)
GcCheckAlways(c) ==
    /\ pc[c] = "gc_check"
    /\ writer = None
    /\ sawEmpty' = [sawEmpty EXCEPT ![c] = (slot = None)]
    /\ emptyReads' = IF slot = None THEN emptyReads + 1 ELSE emptyReads
    /\ pc' = [pc EXCEPT ![c] = "gc_connect"]
    /\ UNCHANGED <<slot, locks, db, callArgs, doc, newc, conn, data, result,
                   nextConn, calls, fails, usedRacers>>

\* (a variant that keeps the read guard of the check while it connects)
GcCheckHoldingGuard(c) ==
    /\ pc[c] = "gc_check"
    /\ writer = None
    /\ sawEmpty' = [sawEmpty EXCEPT ![c] = (slot = None)]
    /\ emptyReads' = IF slot = None THEN emptyReads + 1 ELSE emptyReads
    /\ readers' = IF slot = None THEN readers \cup {c} ELSE readers
    /\ pc' = [pc EXCEPT ![c] = IF slot = None THEN "gc_connect" ELSE "gc_read"]
    /\ UNCHANGED <<slot, writer, db, callArgs, doc, newc, conn, data, result,
                   nextConn, calls, fails, usedRacers>>

\* if self.collection.read().unwrap().is_none(): the read guard is a temporary
\* of the condition and is dropped before the block is entered.
GcCheck(c) ==
    /\ pc[c] = "gc_check"
    /\ writer = None
    /\ sawEmpty' = [sawEmpty EXCEPT ![c] = (slot = None)]
    /\ emptyReads' = IF slot = None THEN emptyReads + 1 ELSE emptyReads
    /\ pc' = [pc EXCEPT ![c] = IF slot = None THEN "gc_connect" ELSE "gc_read"]
    /\ UNCHANGED <<slot, locks, db, callArgs, doc, newc, conn, data, result,
                   nextConn, calls, fails, usedRacers>>

\* Client::with_uri_str(&self.url).await succeeds: new_collection = Some(a
\* collection of a new client).
GcConnectOk(c) ==
    /\ pc[c] = "gc_connect"
    /\ newc' = [newc EXCEPT ![c] = nextConn]
    /\ nextConn' = nextConn + 1
    /\ pc' = [pc EXCEPT ![c] = "gc_write"]
    /\ UNCHANGED <<slot, locks, db, callArgs, doc, sawEmpty, conn, data, result,
                   calls, fails, usedRacers, emptyReads>>

\* (a variant that publishes the failed attempt's empty result)
GcConnectFailPublish(c) ==
    /\ pc[c] = "gc_connect"
    /\ fails < MaxFails
    /\ fails' = fails + 1
    /\ slot' = None
    /\ Return(c, Err("failed to create MongoDB client"))
    /\ UNCHANGED <<locks, db, data, nextConn, calls, usedRacers,
                   emptyReads>>

\* (a variant that tries again after a failed attempt)
GcConnectFailRetry(c) ==
    /\ pc[c] = "gc_connect"
    /\ fails < MaxFails
    /\ fails' = fails + 1
    /\ UNCHANGED <<slot, locks, db, pc, callArgs, locals, result, nextConn, calls,
                   usedRacers, emptyReads>>

\* (a variant that drops the error and goes on to read the slot)
GcConnectFailIgnored(c) ==
    /\ pc[c] = "gc_connect"
    /\ fails < MaxFails
    /\ fails' = fails + 1
    /\ pc' = [pc EXCEPT ![c] = "gc_read"]
    /\ UNCHANGED <<slot, locks, db, callArgs, locals, result, nextConn, calls,
                   usedRacers, emptyReads>>

\* Client::with_uri_str(&self.url).await fails: `?` returns the error from
\* get_collection and from the enclosing get/put.
GcConnectFail(c) ==
    /\ pc[c] = "gc_connect"
    /\ fails < MaxFails
    /\ fails' = fails + 1
    /\ Return(c, Err("failed to create MongoDB client"))
    /\ UNCHANGED <<slot, locks, db, data, nextConn, calls, usedRacers,
                   emptyReads>>

\* self.collection.write().unwrap(): blocks while any guard is held.
GcWriteLock(c) ==
    /\ pc[c] = "gc_write"
    /\ writer = None
    /\ readers = {}
    /\ writer' = c
    /\ pc' = [pc EXCEPT ![c] = "gc_swap"]
    /\ UNCHANGED <<slot, readers, db, callArgs, locals, result, counters,
                   usedRacers>>

\* (a variant that clears a slot it finds populated)
GcSwapReset(c) ==
    /\ pc[c] = "gc_swap"
    /\ writer = c
    /\ slot' = IF slot = None THEN newc[c] ELSE None
    /\ newc' = [newc EXCEPT ![c] = None]
    /\ writer' = None
    /\ pc' = [pc EXCEPT ![c] = "gc_read"]
    /\ UNCHANGED <<readers, db, callArgs, doc, sawEmpty, conn, data, result,
                   counters, usedRacers>>

\* (a variant that swaps into a copy of the slot, not the slot)
GcSwapLost(c) ==
    /\ pc[c] = "gc_swap"
    /\ writer = c
    /\ newc' = [newc EXCEPT ![c] = None]
    /\ writer' = None
    /\ pc' = [pc EXCEPT ![c] = "gc_read"]
    /\ UNCHANGED <<slot, readers, db, callArgs, doc, sawEmpty, conn, data, result,
                   counters, usedRacers>>

\* std::mem::swap(&mut new_collection, current_collection.deref_mut()); the
\* block ends: the write guard is dropped, then new_collection, which holds
\* what the slot held.
GcSwap(c) ==
    /\ pc[c] = "gc_swap"
    /\ writer = c
    /\ slot' = newc[c]
    /\ newc' = [newc EXCEPT ![c] = None]
    /\ writer' = None
    /\ pc' = [pc EXCEPT ![c] = "gc_read"]
    /\ UNCHANGED <<readers, db, callArgs, doc, sawEmpty, conn, data, result,
                   counters, usedRacers>>

\* (a variant that returns the connection and drops the guard at once)
GcReadUnguarded(c) ==
    /\ pc[c] = "gc_read"
    /\ writer = None
    /\ conn' = [conn EXCEPT ![c] = slot]
    /\ usedRacers' = IF sawEmpty[c] /\ slot # None
                     THEN usedRacers \cup {slot} ELSE usedRacers
    /\ pc' = [pc EXCEPT ![c] =
                IF slot = None THEN "panicked"
                ELSE IF op[c] = "get" THEN "find" ELSE "insert"]
    /\ UNCHANGED <<slot, locks, db, callArgs, doc, newc, sawEmpty, data, result,
                   counters>>

\* Ok(self.collection.read().unwrap()): get_collection returns the guard, a
\* temporary of the caller's statement; the caller's .as_ref().unwrap()
\* panics on None.
GcRead(c) ==
    /\ pc[c] = "gc_read"
    /\ writer = None
    /\ readers' = readers \cup {c}
    /\ conn' = [conn EXCEPT ![c] = slot]
    /\ usedRacers' = IF sawEmpty[c] /\ slot # None
                     THEN usedRacers \cup {slot} ELSE usedRacers
    /\ pc' = [pc EXCEPT ![c] =
                IF slot = None THEN "panicked"
                ELSE IF op[c] = "get" THEN "find" ELSE "insert"]
    /\ UNCHANGED <<slot, writer, db, callArgs, doc, newc, sawEmpty, data, result,
                   counters>>

\* ----------------------------------------------------- get: the lookup
\* find_one(doc! { "key": &key }, None).await fails; the statement ends and
\* the read guard is dropped.
GetFindFail(c) ==
    /\ pc[c] = "find"
    /\ readers' = readers \ {c}
    /\ Return(c, Err("failed to fetch entry"))
    /\ UNCHANGED <<slot, writer, db, data, counters, usedRacers>>

\* (a variant that finds nothing when more than one document matches)
FindOneUnique(coll, k) ==
    IF Cardinality(Matching(coll, k)) = 1 THEN Matching(coll, k) ELSE {NoDoc}

\* What find_one can return: NoDoc if nothing matches, else one matching
\* document of the server's choice.
FindOneResults(coll, k) ==
    IF Matching(coll, k) = {} THEN {NoDoc} ELSE Matching(coll, k)

\* (a variant whose lookup removes the document it returns)
GetFindOneAndDelete(c, found) ==
    /\ pc[c] = "find"
    /\ found \in FindOneResults(store, key[c])
    /\ readers' = readers \ {c}
    /\ data' = [data EXCEPT ![c] = found]
    /\ store' = store \ {found}
    /\ Return(c, Decode(found))
    /\ UNCHANGED <<slot, writer, nextOid, tampers, tampered, putLog, counters,
                   usedRacers>>

\* find_one succeeds with found: data = found, the read guard is dropped at
\* the end of the statement, and the match on data gives the call's result.
GetFindOne(c, found) ==
    /\ pc[c] = "find"
    /\ found \in FindOneResults(store, key[c])
    /\ readers' = readers \ {c}
    /\ data' = [data EXCEPT ![c] = found]
    /\ Return(c, Decode(found))
    /\ UNCHANGED <<slot, writer, db, counters, usedRacers>>

\* ----------------------------------------------------- put: the insert
\* insert_one(doc, None).await fails: nothing is stored.
PutInsertFail(c) ==
    /\ pc[c] = "insert"
    /\ readers' = readers \ {c}
    /\ Return(c, Err("failed to insert to MongoDB"))
    /\ UNCHANGED <<slot, writer, db, data, counters, usedRacers>>

\* (a variant that replaces the documents of the same key: an upsert)
InsertUpsert(coll, d, oid) ==
    {x \in coll : x.key # d.key} \cup {d @@ [_id |-> oid]}

\* insert_one: the driver adds an _id (a fresh ObjectId) to a document that
\* has none and the server stores the document.
InsertOne(coll, d, oid) == coll \cup {d @@ [_id |-> oid]}

\* (a variant that issues the insert twice)
PutInsertTwice(c) ==
    /\ pc[c] = "insert"
    /\ readers' = readers \ {c}
    /\ store' = InsertOne(InsertOne(store, doc[c], nextOid), doc[c], nextOid + 1)
    /\ nextOid' = nextOid + 2
    /\ putLog' = Append(putLog, [key |-> key[c], bytes |-> Finish(entry[c]).bytes])
    /\ Return(c, OkDuration)
    /\ UNCHANGED <<slot, writer, data, counters, tampers, tampered, usedRacers>>

\* insert_one succeeds; the guard is dropped; Ok(start.elapsed()).
PutInsertOne(c) ==
    /\ pc[c] = "insert"
    /\ readers' = readers \ {c}
    /\ store' = InsertOne(store, doc[c], nextOid)
    /\ nextOid' = nextOid + 1
    /\ putLog' = Append(putLog, [key |-> key[c], bytes |-> Finish(entry[c]).bytes])
    /\ Return(c, OkDuration)
    /\ UNCHANGED <<slot, writer, data, counters, tampers, tampered, usedRacers>>

\* ------------------------------------------------- the stored documents
\* A stored document is damaged outside this backend (its key is kept, so the
\* lookup still matches it): either the cache field loses its binary type, or
\* the payload loses its trailer.
Damaged(d, how) ==
    IF how = "shape" THEN [d EXCEPT !.cache = BsonNull]
    ELSE [d EXCEPT !.cache = BsonBinary(SubSeq(d.cache.v, 1, Len(d.cache.v) - 1))]

Tamper(d, how) ==
    /\ tampers < MaxTamper
    /\ d \in store
    /\ d.cache.t = "Binary"
    /\ store' = (store \ {d}) \cup {Damaged(d, how)}
    /\ tampers' = tampers + 1
    /\ tampered' = tampered \cup {d.key.v}
    /\ UNCHANGED <<slot, locks, pc, callArgs, locals, result, counters, nextOid,
                   putLog, usedRacers>>

\* ------------------------------------- Storage::current_size / max_size
\* Option<u64>: None, or Some(n) as the number n.
NoSize == -1
SizeOf(v) ==
    IF v = NoSize THEN [kind |-> "SizeNone", err |-> "", bytes |-> <<>>]
    ELSE [kind |-> "SizeSome", err |-> "", bytes |-> <<v>>]

\* f_ok(v): a future that is already resolved with v; the call reads and
\* writes nothing of the backend.
SizeCall(c, o, v) ==
    /\ pc[c] \in {"idle", "done"}
    /\ calls < MaxCalls
    /\ calls' = calls + 1
    /\ pc' = [pc EXCEPT ![c] = "done"]
    /\ op' = [op EXCEPT ![c] = o]
    /\ data' = [data EXCEPT ![c] = NoDoc]
    /\ result' = [result EXCEPT ![c] = SizeOf(v)]
    /\ UNCHANGED <<slot, locks, db, key, entry, doc, newc, sawEmpty, conn,
                   nextConn, fails, usedRacers, emptyReads>>

\* (a variant that reports the number of stored documents)
CurrentSizeCounted(c) == SizeCall(c, "current_size", Cardinality(store))

\* current_size(&self): f_ok(None).
CurrentSize(c) == SizeCall(c, "current_size", NoSize)

\* max_size(&self): f_ok(None).
MaxSize(c) == SizeCall(c, "max_size", NoSize)

\* ------------------------------------------------------------------- Next
\* The callers' steps, with calls made by the callers in P and the keys and
\* writers of the calls drawn from K and W.
Calls(P, K, W) ==
    \/ \E c \in P, k \in K : GetCall(c, k)
    \/ \E c \in P, k \in K, w \in W : PutCall(c, k, w)
    \/ \E c \in Callers : PutFinishFail(c)
    \/ \E c \in Callers : PutSerializeFail(c)
    \/ \E c \in Callers : PutFinish(c)
    \/ \E c \in Callers : GcCheck(c)
    \/ \E c \in Callers : GcConnectOk(c)
    \/ \E c \in Callers : GcConnectFail(c)
    \/ \E c \in Callers : GcWriteLock(c)
    \/ \E c \in Callers : GcSwap(c)
    \/ \E c \in Callers : GcRead(c)
    \/ \E c \in Callers : GetFindFail(c)
    \/ \E c \in Callers : \E found \in FindOneResults(store, key[c]) : GetFindOne(c, found)
    \/ \E c \in Callers : PutInsertFail(c)
    \/ \E c \in Callers : PutInsertOne(c)

\* The size queries of the callers in P.
Sizes(P) ==
    \/ \E c \in P : CurrentSize(c)
    \/ \E c \in P : MaxSize(c)

Next ==
    \/ Calls(Callers, Keys, PendingWrites)
    \/ Sizes(Callers)
    \/ \E d \in store, how \in {"shape", "payload"} : Tamper(d, how)

Spec == Init /\ [][Next]_vars

\* The same backend with two of the callers calling: two callers are enough
\* to race a get or a put against a put on the collection, and with two the
\* longer runs that more calls and more damaged documents give can be
\* explored.
TwoCallers == {1, 2}

NextStore ==
    \/ Calls(TwoCallers, Keys, PendingWrites)
    \/ \E d \in store, how \in {"shape", "payload"} : Tamper(d, how)

SpecStore == Init /\ [][NextStore]_vars

\* The same backend with every call on one key and with one payload: the
\* connection slot's behaviour does not depend on keys or payloads, and with
\* them fixed the interleavings of more callers can be explored.
OneKey == {"k1"}
OneWrite == {[buf |-> [i \in 1..MaxLen |-> 0], ok |-> TRUE], NoWrite}

NextAcquire == Calls(Callers, OneKey, OneWrite)

SpecAcquire == Init /\ [][NextAcquire]_vars

\* The same calls as tasks of one executor thread.  A task runs from the point
\* it is polled to its next .await; the .awaits are the connect, the lookup
\* and the insert.  While a task runs, and while it is blocked in read() or
\* write() of the std RwLock, the thread polls no other task.
Running(c) == pc[c] \in {"put_finish", "gc_check", "gc_write", "gc_swap", "gc_read"}

OnThread(c) == \A d \in Callers \ {c} : ~Running(d)

NextThread ==
    \/ \E c \in Callers, k \in OneKey : OnThread(c) /\ GetCall(c, k)
    \/ \E c \in Callers, k \in OneKey, w \in OneWrite : OnThread(c) /\ PutCall(c, k, w)
    \/ \E c \in Callers : OnThread(c) /\ PutFinishFail(c)
    \/ \E c \in Callers : OnThread(c) /\ PutSerializeFail(c)
    \/ \E c \in Callers : OnThread(c) /\ PutFinish(c)
    \/ \E c \in Callers : OnThread(c) /\ GcCheck(c)
    \/ \E c \in Callers : OnThread(c) /\ GcConnectOk(c)
    \/ \E c \in Callers : OnThread(c) /\ GcConnectFail(c)
    \/ \E c \in Callers : OnThread(c) /\ GcWriteLock(c)
    \/ \E c \in Callers : OnThread(c) /\ GcSwap(c)
    \/ \E c \in Callers : OnThread(c) /\ GcRead(c)
    \/ \E c \in Callers : OnThread(c) /\ GetFindFail(c)
    \/ \E c \in Callers : \E found \in FindOneResults(store, key[c]) :
            OnThread(c) /\ GetFindOne(c, found)
    \/ \E c \in Callers : OnThread(c) /\ PutInsertFail(c)
    \/ \E c \in Callers : OnThread(c) /\ PutInsertOne(c)

SpecThread == Init /\ [][NextThread]_vars

\* The same, with the size queries among the calls.
NextSize == NextAcquire \/ Sizes(Callers)

SpecSize == Init /\ [][NextSize]_vars

\* =================================================================== claims
ConnectError == Err("failed to create MongoDB client")
QueryError == Err("failed to fetch entry")

\* The successful puts on key k, as indices of putLog.
PutsFor(k) == {i \in 1..Len(putLog) : putLog[i].key = k}

\* Caller c's acquire has returned and its query or insert is in flight.
InFlight(c) == pc[c] \in {"find", "insert"}

\* Caller c's lookup completes in this step (the query itself succeeded).
LookupDone(c) ==
    /\ pc[c] = "find"
    /\ pc'[c] = "done"
    /\ result'[c] # QueryError

\* C1: callers that race on the first connection of a fresh backend, all of
\* whose connection attempts succeed, run their query/insert on one and the
\* same connection.
C1_SameConnection == fails = 0 => Cardinality(usedRacers) <= 1

\* C2: the slot is written once: a published connection is never replaced by
\* a second one.
C2_PublishedNeverOverwritten == [][slot # None => slot' = slot]_vars

\* C3: the slot is Uninitialized at construction, and once Ready it is Ready
\* in every later state.
C3_ReadyNeverReverts == (slot = None) /\ [][slot # None => slot' # None]_vars

\* The slot is Ready after two connections were established and one attempt
\* failed.
C3_Witness == slot # None /\ fails >= 1 /\ nextConn >= 3

\* C4: the step in which a caller's connection attempt fails returns the
\* error to that caller and leaves the slot (and the lock) as they were.
C4_FailedAttemptLeavesSlot ==
    [][\A c \in Callers :
         (pc[c] = "gc_connect" /\ pc'[c] = "done")
         => /\ result'[c] = ConnectError
            /\ slot' = slot
            /\ readers' = readers
            /\ writer' = writer]_vars

\* A caller's attempt has failed, it returned the error, and the slot is still
\* Uninitialized.
C4_Witness ==
    \E c \in Callers :
        pc[c] = "done" /\ result[c] = ConnectError /\ slot = None /\ fails = 1

\* C5: after connection attempts have failed, a caller whose acquire returned
\* holds the read guard over a Ready slot and uses the slot's connection, no
\* acquire ends in the unwrap of an empty slot, and a caller that returned
\* holds no guard.
C5_RetryLeavesReady ==
    fails > 0 =>
        \A c \in Callers :
            /\ pc[c] # "panicked"
            /\ InFlight(c) => (slot # None /\ conn[c] = slot /\ c \in readers)
            /\ pc[c] \in {"idle", "done"} => (c \notin readers /\ writer # c)

\* After a failed attempt, a caller that found the slot empty has connected,
\* published and acquired.
C5_Witness ==
    /\ fails > 0
    /\ \E c \in Callers :
        InFlight(c) /\ sawEmpty[c] /\ slot # None /\ conn[c] = slot

\* C6: when exactly one put on the key has succeeded (and the stored document
\* was not damaged), a get whose lookup succeeds returns Hit over exactly the
\* bytes that put finalized.
C6_RoundTrip ==
    [][\A c \in Callers :
         (LookupDone(c) /\ Cardinality(PutsFor(key[c])) = 1
                        /\ key[c] \notin tampered)
         => \A i \in PutsFor(key[c]) : result'[c] = Hit(putLog[i].bytes)]_vars

\* One caller has put a payload and then got it back.
C6_Witness ==
    \E c \in Callers :
        /\ pc[c] = "done" /\ op[c] = "get"
        /\ Len(putLog) = 1 /\ putLog[1].key = key[c]
        /\ result[c] = Hit(putLog[1].bytes)

\* C7: a get on a key no put has succeeded on returns Miss when its lookup
\* succeeds, whatever is stored under other keys.
C7_NeverInsertedIsMiss ==
    [][\A c \in Callers :
         (LookupDone(c) /\ PutsFor(key[c]) = {}) => result'[c] = Miss]_vars

\* A caller has put under one key and then got Miss for another; no other
\* caller has called.
C7_Witness ==
    \E c \in Callers :
        /\ pc[c] = "done" /\ op[c] = "get" /\ result[c] = Miss
        /\ Len(putLog) = 1 /\ putLog[1].key # key[c] /\ store # {}
        /\ \A d \in Callers \ {c} : pc[d] = "idle"

\* C8: once two or more puts on the key have succeeded, a get that succeeds
\* returns Hit over the bytes of one of those puts.
C8_OneOfThePuts ==
    [][\A c \in Callers :
         (LookupDone(c) /\ Cardinality(PutsFor(key[c])) >= 2
                        /\ result'[c].kind \in {"Hit", "Miss"})
         => /\ result'[c].kind = "Hit"
            /\ \E i \in PutsFor(key[c]) : result'[c].bytes = putLog[i].bytes]_vars

\* Two different payloads were put under one key and a get returned the
\* second.
C8_Witness ==
    \E c \in Callers :
        /\ pc[c] = "done" /\ op[c] = "get"
        /\ Len(putLog) = 2
        /\ putLog[1].key = key[c] /\ putLog[2].key = key[c]
        /\ putLog[1].bytes # putLog[2].bytes
        /\ result[c] = Hit(putLog[2].bytes)

\* A step of caller c's put.
PutStep(c) == op[c] = "put" /\ pc[c] \notin {"idle", "done"} /\ pc'[c] # pc[c]

\* C9: a step of a put that returns Ok adds exactly one document, of the
\* call's key and finalized bytes; every other step of a put, the failures
\* included, leaves the stored documents unchanged.
C9_PutAddsOnlyOnSuccess ==
    [][\A c \in Callers :
         PutStep(c)
         => IF result'[c] = OkDuration
            THEN \E d \in store' \ store :
                    /\ store' = store \cup {d}
                    /\ d.key = BsonString(key[c])
                    /\ d.cache = BsonBinary(Finish(entry[c]).bytes)
            ELSE store' = store]_vars

\* A put failed at the insert and nothing is stored.
C9_Witness ==
    \E c \in Callers :
        /\ pc[c] = "done" /\ op[c] = "put"
        /\ result[c] = Err("failed to insert to MongoDB")
        /\ store = {} /\ calls = 1

\* A document that is not of the {key, cache} shape, or whose payload is no
\* archive.
Undecodable(d) ==
    \/ d.key.t # "String"
    \/ d.cache.t # "Binary"
    \/ Len(d.cache.v) = 0
    \/ d.cache.v[Len(d.cache.v)] # EOCD

\* C10: a get whose lookup returned a document that cannot be decoded returns
\* an error, and a get returns Miss only when no stored document has its key.
C10_DecodeErrorIsNotMiss ==
    [][\A c \in Callers :
         (pc[c] = "find" /\ pc'[c] = "done")
         => /\ (data'[c] # NoDoc /\ Undecodable(data'[c]))
                => result'[c].kind = "Err"
            /\ result'[c] = Miss => Matching(store, key[c]) = {}]_vars

\* A get matched a document whose cache field had lost its type and returned
\* the decoding error.
C10_Witness ==
    \E c \in Callers :
        /\ pc[c] = "done" /\ op[c] = "get"
        /\ data[c] # NoDoc /\ data[c].cache.t = "Null"
        /\ result[c] = Err("failed to deserialize MongoDB entry")

SizeOps == {"current_size", "max_size"}

\* C11: a size query resolves to None whatever was put or got before and
\* whatever the slot holds, and its step leaves the slot, the lock and the
\* stored documents as they were.
C11_SizeIsNone ==
    [][\A c \in Callers :
         (calls' = calls + 1 /\ op'[c] \in SizeOps /\ pc'[c] = "done"
                             /\ result'[c] # NoResult)
         => /\ result'[c] = SizeOf(NoSize)
            /\ slot' = slot
            /\ readers' = readers /\ writer' = writer
            /\ store' = store]_vars

\* current_size resolved to None with a Ready slot and a stored document.
C11_Witness ==
    \E c \in Callers :
        /\ pc[c] = "done" /\ op[c] = "current_size"
        /\ result[c] = SizeOf(NoSize)
        /\ slot # None /\ store # {}

\* A step of caller c's get.
GetStep(c) == op[c] = "get" /\ pc[c] \notin {"idle", "done"} /\ pc'[c] # pc[c]

\* C12: no step of a get, whether the get ends in Hit, Miss or an error,
\* changes the stored documents.
C12_GetLeavesStore ==
    [][\A c \in Callers : GetStep(c) => store' = store]_vars

\* A get returned Hit and the document it found is still stored.
C12_Witness ==
    \E c \in Callers :
        /\ pc[c] = "done" /\ op[c] = "get" /\ result[c].kind = "Hit"
        /\ data[c] \in store

\* C13: with the calls as tasks of one executor thread, a call that has not
\* returned can always be continued: no state is reached in which a call is
\* pending and no task can take a step.
C13_NoCallStuck ==
    (\E c \in Callers : pc[c] \notin {"idle", "done"}) => ENABLED NextThread

\* C14: put acquires the connection before it finalizes and serializes the
\* payload: a put that holds its serialized document has acquired, and a put
\* that returned the finalization error has been through the acquisition, so
\* that the slot is Ready or an attempt has failed.
C14_AcquireBeforeSerialize ==
    \A c \in Callers :
        /\ (op[c] = "put" /\ doc[c] # NoDoc) => conn[c] # None
        /\ (op[c] = "put" /\ pc[c] = "done" /\ result[c] = Err("finish failed"))
            => (slot # None \/ fails > 0)

\* Connection attempts made so far, successful and failed.
Attempts == (nextConn - 1) + fails

\* C15: a call makes at most one connection attempt.  The attempt is entered
\* only from the initial check of a call, and only when the check found the
\* slot empty; a step makes at most one attempt, and the attempt ends the
\* caller's connecting: it goes on to publish, or, when the attempt failed,
\* the call returns the connection error.
C15_AtMostOneAttempt ==
    [][/\ \A c \in Callers :
            /\ (pc'[c] = "gc_connect" /\ pc[c] # "gc_connect")
                => (pc[c] = "gc_check" /\ slot = None)
            /\ (pc'[c] = "gc_check" /\ pc[c] # "gc_check")
                => pc[c] \in {"idle", "done", "put_finish"}
       /\ Attempts' # Attempts
            => /\ Attempts' = Attempts + 1
               /\ \E c \in Callers :
                    /\ pc[c] = "gc_connect"
                    /\ IF fails' # fails
                       THEN pc'[c] = "done" /\ result'[c] = ConnectError
                       ELSE pc'[c] = "gc_write"]_vars

\* A caller's only attempt failed and it returned the error, while a call
\* that found the slot Ready is running its query with one connection ever
\* established.
C15_Witness ==
    \E c, d \in Callers :
        /\ c # d
        /\ pc[c] = "done" /\ result[c] = ConnectError
        /\ InFlight(d) /\ ~sawEmpty[d]
        /\ nextConn = 2 /\ fails = 1

\* The two callers' puts, both returned Ok.
BothPutsOk(c, d) ==
    /\ c # d
    /\ op[c] = "put" /\ pc[c] = "done" /\ result[c] = OkDuration
    /\ op[d] = "put" /\ pc[d] = "done" /\ result[d] = OkDuration

\* C16: the stored documents are as many as the puts that returned Ok, key
\* by key; a put whose insert does not fail returns Ok; and no step removes or
\* replaces a stored document.
C16_PutsAccumulate ==
    /\ [](/\ Cardinality(store) = Len(putLog)
          /\ \A k \in Keys :
                Cardinality(Matching(store, k)) = Cardinality(PutsFor(k)))
    /\ [][/\ store \subseteq store'
          /\ \A c \in Callers :
                (pc[c] = "insert" /\ pc'[c] = "done"
                    /\ result'[c] # Err("failed to insert to MongoDB"))
                => /\ result'[c] = OkDuration
                   /\ Cardinality(store') = Cardinality(store) + 1]_vars

\* Two puts on one key ran concurrently (both found the slot empty and both
\* connected), both returned Ok and two documents are stored under the key.
C16_Witness ==
    \E c, d \in Callers :
        /\ BothPutsOk(c, d)
        /\ key[c] = key[d]
        /\ calls = 2 /\ nextConn = 3
        /\ Cardinality(Matching(store, key[c])) = 2

\* C17: a call whose initial check finds the slot Ready goes on to read the
\* slot without a connection attempt, and the slot stays Ready, so that this
\* holds of every call started after the slot became Ready; a call whose
\* query or insert is in flight uses the slot's connection; and the attempts
\* made are at most the initial checks that found the slot empty.
C17_NoConnectOnceReady ==
    /\ [](/\ Attempts <= emptyReads
          /\ \A c \in Callers :
                /\ pc[c] \in {"gc_connect", "gc_write", "gc_swap"} => sawEmpty[c]
                /\ InFlight(c) => conn[c] = slot)
    /\ [][/\ slot # None => slot' # None
          /\ \A c \in Callers :
                (pc[c] = "gc_check" /\ pc'[c] # pc[c] /\ slot # None)
                => /\ pc'[c] = "gc_read"
                   /\ Attempts' = Attempts]_vars

\* Three calls were made, the first connected, and a later call that found
\* the slot Ready is running its query on the slot's connection.
C17_Witness ==
    \E c \in Callers :
        /\ InFlight(c) /\ ~sawEmpty[c] /\ conn[c] = slot
        /\ calls = 3 /\ Attempts = 1 /\ emptyReads = 1

\* C18: no acquire ends in the unwrap of an empty slot: a caller that holds
\* the read guard reads a Ready slot and has its connection.
C18_UnwrapNeverFails ==
    \A c \in Callers :
        /\ pc[c] # "panicked"
        /\ c \in readers => (slot # None /\ conn[c] # None)

\* A caller that found the slot empty has acquired, while another that also
\* found it empty has connected and waits to publish.
C18_Witness ==
    \E c, d \in Callers :
        /\ c # d
        /\ InFlight(c) /\ sawEmpty[c] /\ c \in readers /\ slot # None
        /\ pc[d] = "gc_write" /\ sawEmpty[d]

\* C19: a caller whose query or insert is in flight holds the read guard, no
\* caller holds the write guard meanwhile, and no step taken while a query or
\* insert is in flight changes the slot.
C19_GuardHeldInFlight ==
    /\ [](\A c \in Callers : InFlight(c) => (c \in readers /\ writer = None))
    /\ [][(\E c \in Callers : InFlight(c)) => slot' = slot]_vars

\* A query is in flight on the slot's connection while another caller holds a
\* different connection that it is waiting to publish.
C19_Witness ==
    \E c, d \in Callers :
        /\ InFlight(c) /\ conn[c] = slot
        /\ pc[d] = "gc_write" /\ newc[d] # None /\ newc[d] # slot

\* C20: a caller whose connect is in flight holds neither guard; a caller
\* holds the write guard exactly in the publication step, and a read guard
\* exactly while its query or insert is in flight.
C20_NoLockWhileConnecting ==
    \A c \in Callers :
        /\ pc[c] = "gc_connect" => (c \notin readers /\ writer # c)
        /\ writer = c <=> pc[c] = "gc_swap"
        /\ c \in readers <=> InFlight(c)

\* A caller's connect is in flight while another caller holds the write
\* guard for its publication.
C20_Witness ==
    \E c, d \in Callers :
        pc[c] = "gc_connect" /\ pc[d] = "gc_swap" /\ writer = d

====
